---- MODULE Spec2Model ----
(***************************************************************************)
(* The frame strip of no-scrollbars/noscrollbars.py: Frames.event,         *)
(* Frames.update, Frames.draw and Frames.find_position over the 50 Frame   *)
(* objects.                                                                *)
(*                                                                         *)
(* Numbers.  The program computes with floats; the model computes with     *)
(* exact fractions, kept as integer numerators over fixed denominators:    *)
(*   position                           in units of 1/PosScale frame       *)
(*   percent_away_from_vertical_center  in units of 1/YScale               *)
(*   inverse_percent_away               in units of 1/IpDen                *)
(*   frame.deflate_height               in units of 1/IpDen                *)
(*   frame.proportion                   in units of 1/(IpDen*IpDen)        *)
(*   columns.size                       in units of 1/(NumFrames*YScale)   *)
(*                                                                         *)
(* Geometry.  The canvas, rectangle and event classes are not part of the  *)
(* source file.  A mouse point is given by what the rectangles of the last *)
(* draw answer for it: the column (frame) it lies over, how far into that  *)
(* column it is (px/PosScale), how far down the container it is            *)
(* (py/YScale), and whether a point on a column's edge is also contained   *)
(* in the neighbouring column's rectangle (shared).                        *)
(***************************************************************************)
EXTENDS Integers, Sequences, FiniteSets

\* ---------------------------------------------------------------- constants

\* range(50) in Frames.__init__
NumFrames == 50
\* self.number_of_frames_to_magnify = 5
number_of_frames_to_magnify == 5
\* self.deflation_base = 30
deflation_base == 30
\* Python's None, and an attribute that has not been assigned
None == -1

\* ------------------------------------------------------------------- bounds

\* a mouse point's x within a column is one of 0/PosScale .. PosScale/PosScale
PosScale == 2
\* a mouse point's y within the container is one of 0/YScale .. YScale/YScale
YScale == 2
\* width of the canvas handed to Frames.draw
CanvasWidth == 1000
\* in-bounds mouse motions handled in a run of Spec
MaxMoves == 1
\* in-bounds mouse motions handled in a run of SpecReplay
MaxReplayMoves == 2
\* SpecReplay's pointer stays within this many columns of the middle column
ReplayRadius == 1

IpDen == number_of_frames_to_magnify * PosScale

VARIABLES
    frames,                             \* Frames.frames: the Frame objects
    rectangle,                          \* Frames.rectangle (its width) or None
    position,                           \* Frames.position
    percent_away_from_vertical_center,  \* Frames.percent_away_from_vertical_center
    updated,                            \* the attributes update assigns exist
    magnification_percent,              \* Frames.magnification_percent
    before,                             \* Frames.before (frame numbers)
    magnify,                            \* Frames.magnify (frame numbers)
    after,                              \* Frames.after (frame numbers)
    columns,                            \* the columns Frames.draw last asked for
    fault,                              \* an exception ended the program
    last_call,                          \* the callback the host ran last
                                        \* ("update_again": update, twice in a row)
    mouse_y,                            \* py of the last in-bounds mouse point
    moves                               \* in-bounds mouse motions handled

vars == <<frames, rectangle, position, percent_away_from_vertical_center,
          updated, magnification_percent, before, magnify, after, columns,
          fault, last_call, mouse_y, moves>>

Abs(x) == IF x < 0 THEN -x ELSE x

Max(a, b) == IF a >= b THEN a ELSE b

RECURSIVE Sum(_)
Sum(s) == IF s = <<>> THEN 0 ELSE Head(s) + Sum(Tail(s))

\* ------------------------------------------------------------------- Frame

\* Frame.__init__: no rectangle yet, deflate_height 0, no proportion attribute
Frame(number) ==
    [number |-> number, rectangle |-> "None", deflate_height |-> 0,
     proportion |-> None]

\* Frame.draw: self.rectangle = canvas.rectangle
FrameDraw(frame) == [frame EXCEPT !.rectangle = "Rect"]

\* ------------------------------------------------------ rectangles, points

AllColumns == 0 .. (NumFrames - 1)

ReplayColumns ==
    { c \in AllColumns : Abs(c - NumFrames \div 2) <= ReplayRadius }

\* The heights py a mouse point inside the container can have.
AllRows == 0 .. YScale

\* SpecReplay's pointer stays on the container's top edge.
ReplayRows == { 0 }

\* The mouse points over the columns cols, and over no column (col = None),
\* at the heights rows.
MousePoints(cols, rows) ==
    [col : cols \cup {None}, px : 0 .. PosScale, shared : BOOLEAN, py : rows]

\* frame.rectangle.contains(mouse_point)
Contains(frame, point) ==
    /\ point.col # None
    /\ \/ point.col = frame.number
       \/ point.shared /\ point.px = PosScale /\ point.col + 1 = frame.number
       \/ point.shared /\ point.px = 0 /\ point.col - 1 = frame.number

\* frame.rectangle.percent(mouse_point).x, in units of 1/PosScale
PercentX(frame, point) ==
    IF point.col = frame.number THEN point.px
    ELSE IF point.col + 1 = frame.number THEN 0
    ELSE PosScale

\* The events of the host: a key (no motion), a motion outside self.rectangle,
\* a motion inside it.  inside is the answer of
\* event.mouse_motion(inside=self.rectangle); what it is for a rectangle of
\* None is the event class's business, so both answers occur.
Events(cols, rows) ==
    { [motion |-> FALSE, inside |-> FALSE, point |-> p] :
          p \in { [col |-> None, px |-> 0, shared |-> FALSE, py |-> 0] } }
    \cup
    { [motion |-> TRUE, inside |-> FALSE, point |-> p] :
          p \in { [col |-> None, px |-> 0, shared |-> FALSE, py |-> 0] } }
    \cup
    { [motion |-> TRUE, inside |-> TRUE, point |-> p] : p \in MousePoints(cols, rows) }

\* ------------------------------------------------------------ find_position

Mean_NotDivided(positions) == Sum(positions)

\* sum(positions) / len(positions)
Mean(positions) == Sum(positions) \div Len(positions)

\* Frames.find_position.  frame.rectangle.contains on a rectangle of None
\* raises AttributeError.
find_position(fs, point) ==
    IF \E k \in 1 .. Len(fs) : fs[k].rectangle = "None"
    THEN [raised |-> TRUE, value |-> 0]
    ELSE LET hit == SelectSeq(fs, LAMBDA f : Contains(f, point))
             positions ==
                 [k \in 1 .. Len(hit) |->
                     hit[k].number * PosScale + PercentX(hit[k], point)]
         IN  IF positions # <<>>
             THEN [raised |-> FALSE, value |-> Mean(positions)]
             ELSE [raised |-> FALSE, value |-> (Len(fs) * PosScale) \div 2]

\* ---------------------------------------------------------------- __init__

InitFrames == [k \in 1 .. NumFrames |-> Frame(k - 1)]

InitPosition == (Len(InitFrames) * PosScale) \div 2

Init ==
    /\ frames = InitFrames
    /\ rectangle = None
    /\ position = InitPosition
    /\ percent_away_from_vertical_center = 0
    /\ updated = FALSE
    /\ magnification_percent = None
    /\ before = <<>>
    /\ magnify = <<>>
    /\ after = <<>>
    /\ columns = [before |-> 0, size |-> 0, after |-> 0]
    /\ fault = FALSE
    /\ last_call = "init"
    /\ mouse_y = None
    /\ moves = 0

\* -------------------------------------------------------------------- event

VerticalIntensity_NoAbs(py) == YScale - 2 * py

\* 2*abs(0.5 - self.rectangle.percent(event.mouse_point()).y)
VerticalIntensity(py) == Abs(YScale - 2 * py)

MotionIgnored_Resets(e) ==
    /\ position' = InitPosition
    /\ percent_away_from_vertical_center' = 0
    /\ last_call' = IF e.motion THEN "motion_outside" ELSE "key"
    /\ UNCHANGED <<frames, rectangle, updated, magnification_percent, before,
                   magnify, after, columns, fault, mouse_y, moves>>

\* Frames.event when the event is no mouse motion, or a motion that is not
\* inside self.rectangle: nothing is assigned.
MotionIgnored(e) ==
    /\ last_call' = IF e.motion THEN "motion_outside" ELSE "key"
    /\ UNCHANGED <<frames, rectangle, position,
                   percent_away_from_vertical_center, updated,
                   magnification_percent, before, magnify, after, columns,
                   fault, mouse_y, moves>>

\* Frames.event for a mouse motion inside self.rectangle.
MotionInside(e) ==
    LET found == find_position(frames, e.point)
    IN  /\ last_call' = "motion_inside"
        /\ IF found.raised \/ rectangle = None
           THEN /\ fault' = TRUE
                /\ position' = IF found.raised THEN position ELSE found.value
                /\ UNCHANGED <<percent_away_from_vertical_center, mouse_y,
                               moves>>
           ELSE /\ position' = found.value
                /\ percent_away_from_vertical_center' =
                       VerticalIntensity(e.point.py)
                /\ mouse_y' = e.point.py
                /\ moves' = moves + 1
                /\ UNCHANGED fault
        /\ UNCHANGED <<frames, rectangle, updated, magnification_percent,
                       before, magnify, after, columns>>

\* App.event -> Frames.event, for at most limit in-bounds motions
Event(e, limit) ==
    /\ ~fault
    /\ IF e.motion /\ e.inside
       THEN moves < limit /\ MotionInside(e)
       ELSE MotionIgnored(e)

\* ------------------------------------------------------------------- update

\* offset = self.number_of_frames_to_magnify / 2, and with p = pos/PosScale:
\*   number + 0.5 < p - offset   <=>
\*   (2*number + 1)*PosScale < 2*pos - number_of_frames_to_magnify*PosScale

IsBefore_OrEqual(number, pos) ==
    (2 * number + 1) * PosScale <= 2 * pos - number_of_frames_to_magnify * PosScale

\* frame.number + 0.5 < self.position - offset
IsBefore(number, pos) ==
    (2 * number + 1) * PosScale < 2 * pos - number_of_frames_to_magnify * PosScale

IsAfter_OrEqual(number, pos) ==
    /\ ~IsBefore(number, pos)
    /\ (2 * number + 1) * PosScale >= 2 * pos + number_of_frames_to_magnify * PosScale

\* elif frame.number + 0.5 > self.position + offset
IsAfter(number, pos) ==
    /\ ~IsBefore(number, pos)
    /\ (2 * number + 1) * PosScale > 2 * pos + number_of_frames_to_magnify * PosScale

IsMagnify_StrictlyInside(number, pos) ==
    Abs(2 * pos - (2 * number + 1) * PosScale)
        < number_of_frames_to_magnify * PosScale

\* else
IsMagnify(number, pos) == ~IsBefore(number, pos) /\ ~IsAfter(number, pos)

\* inverse_percent_away = 1 - abs(self.position - frame.number - 0.5) / offset,
\* in units of 1/IpDen
inverse_percent_away(number, pos) ==
    IpDen - Abs(2 * pos - (2 * number + 1) * PosScale)

Proportion_NotDoubled(ipa) == IpDen * IpDen + ipa * ipa

\* 1 + (2*inverse_percent_away)**2, in units of 1/(IpDen*IpDen)
Proportion(ipa) == IpDen * IpDen + (2 * ipa) * (2 * ipa)

UpdateFrame_KeepsDeflation(frame, pos) ==
    IF IsBefore(frame.number, pos) \/ IsAfter(frame.number, pos)
    THEN frame
    ELSE LET ipa == inverse_percent_away(frame.number, pos)
         IN  [frame EXCEPT !.proportion = Proportion(ipa),
                           !.deflate_height = (IpDen - ipa) * deflation_base]

\* The body of update's loop, for one frame.
UpdateFrame(frame, pos) ==
    IF IsBefore(frame.number, pos)
    THEN [frame EXCEPT !.deflate_height = deflation_base * IpDen]
    ELSE IF IsAfter(frame.number, pos)
    THEN [frame EXCEPT !.deflate_height = deflation_base * IpDen]
    ELSE LET ipa == inverse_percent_away(frame.number, pos)
         IN  [frame EXCEPT !.proportion = Proportion(ipa),
                           !.deflate_height = (IpDen - ipa) * deflation_base]

EmptyList_Kept(old) == old

\* self.before = []; self.magnify = []; self.after = []
EmptyList(old) == <<>>

\* The numbers of the frames chosen, in order: what the loop appended to one
\* of the three lists.
Numbers(chosen) == [k \in 1 .. Len(chosen) |-> chosen[k].number]

\* App.update -> Frames.update
Update ==
    /\ ~fault
    /\ magnification_percent' = 1 * percent_away_from_vertical_center
    /\ before' = EmptyList(before) \o Numbers(SelectSeq(frames, LAMBDA f : IsBefore(f.number, position)))
    /\ magnify' = EmptyList(magnify) \o Numbers(SelectSeq(frames, LAMBDA f : IsMagnify(f.number, position)))
    /\ after' = EmptyList(after) \o Numbers(SelectSeq(frames, LAMBDA f : IsAfter(f.number, position)))
    /\ frames' = [k \in 1 .. Len(frames) |-> UpdateFrame(frames[k], position)]
    /\ updated' = TRUE
    /\ last_call' = IF last_call \in {"update", "update_again"}
                    THEN "update_again"
                    ELSE "update"
    /\ UNCHANGED <<rectangle, position, percent_away_from_vertical_center,
                   columns, fault, mouse_y, moves>>

\* --------------------------------------------------------------------- draw

Range(s) == { s[k] : k \in 1 .. Len(s) }

\* The magnify column's size,
\*   max(2*len(self.magnify)*width/len(self.frames),
\*       width*self.magnification_percent),
\* in units of 1/(NumFrames*YScale)
MagnifySize(width) ==
    Max(2 * Len(magnify) * width * YScale,
        width * magnification_percent * Len(frames))

\* App.draw -> Frames.draw.  Before the first update the attributes before,
\* magnify, after and magnification_percent do not exist: AttributeError,
\* after self.rectangle was assigned.
Draw ==
    /\ ~fault
    /\ rectangle' = CanvasWidth
    /\ last_call' = "draw"
    /\ IF ~updated
       THEN /\ fault' = TRUE
            /\ UNCHANGED <<frames, columns>>
       ELSE /\ columns' = [before |-> Len(before),
                           size |-> MagnifySize(CanvasWidth),
                           after |-> Len(after)]
            /\ frames' =
                   [k \in 1 .. Len(frames) |->
                       IF frames[k].number
                              \in Range(before) \cup Range(magnify) \cup Range(after)
                       THEN FrameDraw(frames[k])
                       ELSE frames[k]]
            /\ UNCHANGED fault
    /\ UNCHANGED <<position, percent_away_from_vertical_center, updated,
                   magnification_percent, before, magnify, after, mouse_y,
                   moves>>

\* ----------------------------------------------------------- specifications

\* Every mouse point over the strip; MaxMoves in-bounds motions.
Next ==
    \/ \E e \in Events(AllColumns, AllRows) : Event(e, MaxMoves)
    \/ Update
    \/ Draw

Spec == Init /\ [][Next]_vars

\* Mouse points near the middle of the strip, on its top edge;
\* MaxReplayMoves in-bounds motions.
NextReplay ==
    \/ \E e \in Events(ReplayColumns, ReplayRows) : Event(e, MaxReplayMoves)
    \/ Update
    \/ Draw

SpecReplay == Init /\ [][NextReplay]_vars

\* ------------------------------------------------------------------- claims

\* The last callback was update: the groups and the frames' fields are those
\* update computed from the current position.
JustUpdated == last_call \in {"update", "update_again"}

\* Twice the distance of frame number's center from the position, in units of
\* 1/PosScale: 2*|position - number - 0.5|.
Distance2(number) == Abs(2 * position - (2 * number + 1) * PosScale)

\* C1: once update has run, before, magnify and after, in this order, list
\* the frame numbers 0 .. NumFrames-1 exactly once each and in ascending
\* order: the groups are disjoint, cover every frame, each is contiguous and
\* ascending, before lies below magnify and magnify below after.
C1_GroupsPartitionFrames ==
    updated =>
        LET all == before \o magnify \o after
        IN  /\ Len(all) = NumFrames
            /\ \A k \in 1 .. Len(all) : all[k] = k - 1
            /\ \A k \in 1 .. (Len(before) - 1) : before[k + 1] = before[k] + 1
            /\ \A k \in 1 .. (Len(magnify) - 1) : magnify[k + 1] = magnify[k] + 1
            /\ \A k \in 1 .. (Len(after) - 1) : after[k + 1] = after[k] + 1
            /\ Range(before) \cap Range(magnify) = {}
            /\ Range(magnify) \cap Range(after) = {}
            /\ Range(before) \cap Range(after) = {}

C1_Witness ==
    /\ JustUpdated
    /\ moves > 0
    /\ position # InitPosition
    /\ before # <<>> /\ magnify # <<>> /\ after # <<>>

\* C2, as stated: with no pointer move yet, a tick gives magnify = 23..27,
\* before = 0..22 and after = 28..49.
C2_MagnifyFrom23 ==
    (moves = 0 /\ updated) =>
        /\ magnify = <<23, 24, 25, 26, 27>>
        /\ before = [k \in 1 .. 23 |-> k - 1]
        /\ after = [k \in 1 .. 22 |-> k + 27]

\* C2, amended: with no pointer move yet (position 25), a tick gives
\* magnify = 22..27 (six frames: the centers 22.5 and 27.5 lie on the window's
\* edges and are not outside it), before = 0..21 and after = 28..49, 22 frames
\* each.
C2_InitialGroups ==
    (moves = 0 /\ updated) =>
        /\ position * 2 = NumFrames * PosScale
        /\ magnify = <<22, 23, 24, 25, 26, 27>>
        /\ before = [k \in 1 .. 22 |-> k - 1]
        /\ after = [k \in 1 .. 22 |-> k + 27]
        /\ Len(before) = Len(after)

C2_Witness == last_call = "update" /\ moves = 0 /\ Len(magnify) = 6

\* C3: a step that is a mouse motion outside the container, a tick or a
\* render changes neither position nor percent_away_from_vertical_center; so
\* a position set by an in-bounds motion is not reset by any of them.
C3_OutsideMotionKeepsPosition ==
    [][last_call' \in {"motion_outside", "update", "update_again", "draw"}
           => /\ position' = position
              /\ percent_away_from_vertical_center'
                     = percent_away_from_vertical_center]_vars

C3_Witness ==
    /\ last_call = "motion_outside"
    /\ moves > 0
    /\ position # InitPosition
    /\ percent_away_from_vertical_center # 0

\* C4: a pointer move handled while no frame has a recorded rectangle does
\* not fault, and leaves the position at the idle default NumFrames/2.
C4_UnrecordedHitTestDefaults ==
    (last_call = "motion_inside"
         /\ \A k \in 1 .. Len(frames) : frames[k].rectangle = "None")
    => (~fault /\ position * 2 = NumFrames * PosScale)

\* C5: after a tick, a magnify frame whose center is the position has
\* proportion 5 and deflate_height 0; one whose center is half the window
\* (2.5) away has proportion 1 and deflate_height 30; every magnify frame has
\* proportion in [1, 5] and deflate_height in [0, 30].
C5_MagnifyScale ==
    JustUpdated =>
        \A k \in 1 .. Len(frames) :
            frames[k].number \in Range(magnify) =>
                LET f == frames[k]
                    d == Distance2(f.number)
                IN  /\ d = 0 => /\ f.proportion = 5 * IpDen * IpDen
                                /\ f.deflate_height = 0
                    /\ d = 5 * PosScale
                           => /\ f.proportion = 1 * IpDen * IpDen
                              /\ f.deflate_height = 30 * IpDen
                    /\ f.proportion >= 1 * IpDen * IpDen
                    /\ f.proportion <= 5 * IpDen * IpDen
                    /\ f.deflate_height >= 0
                    /\ f.deflate_height <= 30 * IpDen

C5_Witness ==
    /\ JustUpdated
    /\ \E k \in 1 .. Len(frames) :
           /\ frames[k].number \in Range(magnify)
           /\ Distance2(frames[k].number) = 0
           /\ frames[k].proportion = 5 * IpDen * IpDen

\* C6: percent_away_from_vertical_center lies in [0, 1]; it is 0 until the
\* first in-bounds motion and when the last in-bounds point was at the
\* vertical center, and is 2*|0.5 - y%| of the last in-bounds point.
C6_VerticalIntensityRange ==
    /\ percent_away_from_vertical_center >= 0
    /\ percent_away_from_vertical_center <= YScale
    /\ moves = 0 => percent_away_from_vertical_center = 0
    /\ mouse_y # None =>
           /\ 2 * mouse_y = YScale => percent_away_from_vertical_center = 0
           /\ 2 * mouse_y >= YScale
                  => percent_away_from_vertical_center = 2 * mouse_y - YScale
           /\ 2 * mouse_y <= YScale
                  => percent_away_from_vertical_center = YScale - 2 * mouse_y

C6_Witness ==
    /\ moves > 0
    /\ mouse_y = YScale
    /\ percent_away_from_vertical_center = YScale

\* C7: an update that directly follows an update changes neither the groups
\* nor any frame's deflate_height or proportion.
C7_TickIdempotent ==
    [][(JustUpdated /\ last_call' = "update_again")
           => /\ before' = before
              /\ magnify' = magnify
              /\ after' = after
              /\ \A k \in 1 .. Len(frames) :
                     /\ frames'[k].deflate_height = frames[k].deflate_height
                     /\ frames'[k].proportion = frames[k].proportion]_vars

C7_Witness ==
    /\ last_call = "update_again"
    /\ moves > 0
    /\ position # InitPosition

\* The frames after the first tick of a run with no pointer move.
FreshTickFrames ==
    [k \in 1 .. Len(InitFrames) |-> UpdateFrame(InitFrames[k], InitPosition)]

\* C8, as stated: after a tick, every frame's deflate_height and proportion
\* are those of any other run that ticked at the same position; here the
\* other run is the one that ticked with no pointer move (position
\* NumFrames/2).
C8_SameAsFreshRun ==
    (JustUpdated /\ position = InitPosition) =>
        \A k \in 1 .. Len(frames) :
            /\ frames[k].deflate_height = FreshTickFrames[k].deflate_height
            /\ frames[k].proportion = FreshTickFrames[k].proportion

\* C8, amended: after a tick, the position alone decides every frame's
\* deflate_height (30 outside the window, 30 * distance / 2.5 inside it) and
\* the proportion of every frame in magnify (1 + (2 * (1 - distance/2.5))^2).
C8_RecomputedFromPosition ==
    JustUpdated =>
        \A k \in 1 .. Len(frames) :
            LET f == frames[k]
                d == Distance2(f.number)
            IN  /\ d > 5 * PosScale => f.deflate_height = 30 * 5 * PosScale
                /\ d <= 5 * PosScale => f.deflate_height = 30 * d
                /\ f.number \in Range(magnify)
                       => f.proportion
                              = 25 * PosScale * PosScale
                                    + 4 * (5 * PosScale - d) * (5 * PosScale - d)

C8_Witness ==
    /\ JustUpdated
    /\ moves > 1
    /\ \E k \in 1 .. Len(frames) :
           /\ frames[k].number \notin Range(magnify)
           /\ frames[k].proportion # None
           /\ frames[k].deflate_height = 30 * IpDen

\* C9: position lies in [0, NumFrames], and is NumFrames/2 until the first
\* in-bounds motion.
C9_PositionInRange ==
    /\ position >= 0
    /\ position <= NumFrames * PosScale
    /\ moves = 0 => position * 2 = NumFrames * PosScale

C9_Witness ==
    /\ moves > 0
    /\ position = NumFrames * PosScale

\* Some frame's center is the window edge edge2/2 (in units of 1/PosScale).
IsFrameCenter(edge2) ==
    \E n \in 0 .. (NumFrames - 1) : edge2 = (2 * n + 1) * PosScale

\* C10: after a tick magnify holds 3 to 6 frames: 5 or 6 when the window
\* [position - 2.5, position + 2.5] lies inside [0, NumFrames], 6 exactly
\* when both window edges are frame centers, 3 at position 0 and at
\* position NumFrames; and 2 * |magnify| * width / NumFrames is at most the
\* container's width.
C10_MagnifyCount ==
    JustUpdated =>
        /\ Len(magnify) >= 3
        /\ Len(magnify) <= 6
        /\ (2 * position - 5 * PosScale >= 0
                /\ 2 * position + 5 * PosScale <= 2 * NumFrames * PosScale)
               => Len(magnify) \in {5, 6}
        /\ Len(magnify) = 6
               <=> /\ IsFrameCenter(2 * position - 5 * PosScale)
                   /\ IsFrameCenter(2 * position + 5 * PosScale)
        /\ position \in {0, NumFrames * PosScale} => Len(magnify) = 3
        /\ 2 * Len(magnify) * CanvasWidth <= CanvasWidth * NumFrames

C10_Witness ==
    /\ JustUpdated
    /\ position = 0
    /\ Len(magnify) = 3

====
